---- MODULE Spec2Model ----
(***************************************************************************)
(* Model of calendar.go: a single-threaded command line program that       *)
(* resolves a query window from its flags, obtains an OAuth client, lists  *)
(* the events of the primary calendar page by page and writes one CSV row  *)
(* per event to standard output.                                           *)
(*                                                                         *)
(* Time is counted in ticks; TicksPerSec ticks make one second, so that    *)
(* sub-second precision (which time.Parse accepts and which                *)
(* Format(time.RFC3339) does not print) is visible in the model.           *)
(***************************************************************************)
EXTENDS Integers, Sequences, FiniteSets, TLC

\* ---------------------------------------------------------------- bounds
TicksPerSec == 2      \* clock resolution of the model
MaxSec      == 1      \* wall-clock seconds a date string may name: 0..MaxSec
MaxOff      == 1      \* zone offsets (in seconds) a date string may name
MaxSpan     == 1      \* -from / -to durations range over -MaxSpan..MaxSpan ticks
MaxTick     == 1      \* ticks the clock may advance between two time.Now() calls
MaxPages    == 2      \* pages the remote list API returns
MaxItems    == 2      \* events the remote calendar holds in the window

\* ------------------------------------------------------ program constants
DefaultLimit == 250   \* flag.IntVar(&limit, "limit", 250, ...)
PageSize     == 10    \* MaxResults(10)

VARIABLES
    \* command line (flag.Parse)
    limit, dateStartString, dateEndString, dateFromSpan, dateToSpan,
    \* main's locals and the wall clock
    dateStart, dateEnd, startValue, now,
    \* main's position, process exit
    pc, exit, fatalMsg,
    \* getClient: what happened to the credential
    tokLoad, prompts, exchanges, tokenWrites,
    \* the list call
    queries, qTimeMin, qTimeMax,
    \* the remote calendar (the pages it will return) and the fetch context
    remote, pageIdx, ctxErr, cancelled,
    \* EventCollector and the running callback
    pageCounter, itemCounter, i, cbRet,
    \* csv.Writer over os.Stdout: buffered rows, sticky error, rows on the stream
    buf, werr, out

flagVars   == <<limit, dateStartString, dateEndString, dateFromSpan, dateToSpan>>
timeVars   == <<dateStart, dateEnd, startValue, now>>
authVars   == <<tokLoad, prompts, exchanges, tokenWrites>>
queryVars  == <<queries, qTimeMin, qTimeMax>>
fetchVars  == <<remote, pageIdx, ctxErr, cancelled>>
collVars   == <<pageCounter, itemCounter, i, cbRet>>
writerVars == <<buf, werr, out>>
vars == <<flagVars, timeVars, pc, exit, fatalMsg, authVars, queryVars,
          fetchVars, collVars, writerVars>>

\* ------------------------------------------------------------ date strings
\* A date string is empty (flag not given), malformed, or a well-formed
\* RFC3339 string: wall-clock second, fraction of a second (in ticks) and
\* zone offset (in seconds).
EmptyStr == [k |-> "empty", sec |-> 0, frac |-> 0, off |-> 0]
BadStr   == [k |-> "bad",   sec |-> 0, frac |-> 0, off |-> 0]
GoodStrs == [k : {"ok"}, sec : 0..MaxSec, frac : 0..(TicksPerSec - 1), off : 0..MaxOff]
DateStrs == {EmptyStr, BadStr} \cup GoodStrs

\* A time.Time: an instant (ticks) and the zone it is shown in.
ZeroTime == [t |-> 0, off |-> 0]

\* time.Now(): the clock's instant in the local zone.
TimeNow(clock) == [t |-> clock, off |-> 0]

\* time.Parse(time.RFC3339, s): fails on a malformed string; a fractional
\* second in the input is accepted and kept.
ParseRFC3339(s) ==
    [ok   |-> s.k = "ok",
     time |-> [t |-> (s.sec - s.off) * TicksPerSec + s.frac, off |-> s.off]]

\* t.Format(time.RFC3339): whole seconds in the time's own zone; the layout
\* has no fractional-second field.
FormatRFC3339UTC(tm) ==
    [k |-> "ok", sec |-> tm.t \div TicksPerSec, frac |-> 0, off |-> 0]
FormatRFC3339(tm) ==
    [k |-> "ok", sec |-> (tm.t \div TicksPerSec) + tm.off, frac |-> 0, off |-> tm.off]

\* t.Add(d)
Add(tm, d) == [tm EXCEPT !.t = tm.t + d]

\* end.After(start), the test of line 121
RangeOKLoose(start, end) == end.t >= start.t
RangeOK(start, end) == end.t > start.t

\* ------------------------------------------------------------------ events
\* calendar.Event: Start.DateTime, Start.Date, Summary.  An event has a
\* start: a precise one, a date-only one, or both.
Events == {e \in [dt : {"", "t"}, date : {"", "d"}, summary : {"s"}] :
              e.dt # "" \/ e.date # ""}

\* WriteEvent's choice of the date field (lines 154-157).
EventDateNoFallback(item) == item.dt
EventDate(item) == IF item.dt = "" THEN item.date ELSE item.dt

\* The record WriteEvent hands to csv.Writer.Write (line 158).
Record(item) == <<EventDate(item), item.summary>>

\* c.itemCounter += len(e.Items)  (line 175)
AddItemsOne(c, page) == c + 1
AddItems(c, page) == c + Len(page)

\* ctx.Err() != nil  (line 171)
CtxDoneNever(err) == FALSE
CtxDone(err) == err

\* err != nil after tokenFromFile  (line 28)
LoadFailedAlways(r) == TRUE
LoadFailed(r) == r = "err"

\* --------------------------------------------------------------- helpers
Min(a, b) == IF a < b THEN a ELSE b

RECURSIVE SeqsUpTo(_, _)
SeqsUpTo(S, n) ==
    IF n = 0 THEN {<<>>}
    ELSE LET shorter == SeqsUpTo(S, n - 1)
         IN  shorter \cup {Append(s, x) : s \in {q \in shorter : Len(q) = n - 1}, x \in S}

\* A page holds at most MaxResults events.
Pages == SeqsUpTo(Events, Min(PageSize, MaxItems))

RECURSIVE Flatten(_)
Flatten(pages) ==
    IF pages = <<>> THEN <<>> ELSE Head(pages) \o Flatten(Tail(pages))

Fatal(msg) ==
    /\ exit' = "fatal"
    /\ fatalMsg' = msg
    /\ pc' = "done"

Goto(loc) ==
    /\ pc' = loc
    /\ UNCHANGED <<exit, fatalMsg>>

\* ------------------------------------------------------------------- Init
InitWith(Limits, Starts, Ends, Froms, Tos, Clocks, Remotes) ==
    /\ limit \in Limits
    /\ dateStartString \in Starts
    /\ dateEndString \in Ends
    /\ dateFromSpan \in Froms
    /\ dateToSpan \in Tos
    /\ now \in Clocks
    /\ remote \in Remotes
    /\ dateStart = ZeroTime
    /\ dateEnd = ZeroTime
    /\ startValue = ZeroTime
    /\ pc = "start"
    /\ exit = "running"
    /\ fatalMsg = ""
    /\ tokLoad = "none"
    /\ prompts = 0
    /\ exchanges = 0
    /\ tokenWrites = 0
    /\ queries = 0
    /\ qTimeMin = EmptyStr
    /\ qTimeMax = EmptyStr
    /\ pageIdx = 0
    /\ ctxErr = FALSE
    /\ cancelled = [phase |-> "none", page |-> 0, item |-> 0]
    /\ pageCounter = 0
    /\ itemCounter = 0
    /\ i = 0
    /\ cbRet = <<>>
    /\ buf = <<>>
    /\ werr = FALSE
    /\ out = <<>>

\* The remote API always answers with at least one page (possibly empty);
\* the pages together hold the events of the window.
Remotes == {r \in SeqsUpTo(Pages, MaxPages) : r # <<>> /\ Len(Flatten(r)) <= MaxItems}

\* One valid explicit window, every calendar content.
Init ==
    InitWith({1, DefaultLimit},
             {[k |-> "ok", sec |-> 0, frac |-> 0, off |-> 0]},
             {[k |-> "ok", sec |-> 1, frac |-> 0, off |-> 0]},
             {0}, {0}, {TicksPerSec}, Remotes)

\* Every window flag, one small calendar.
InitResolver ==
    InitWith({DefaultLimit}, DateStrs, DateStrs, (-MaxSpan)..MaxSpan, (-MaxSpan)..MaxSpan,
             {TicksPerSec},
             {<<<<[dt |-> "t", date |-> "", summary |-> "s"]>>>>})

\* ------------------------------------------------- main: the query window
\* Lines 101-109: the start of the window; line 109 adds the -from span to
\* dateEnd, which still holds the zero time.
ResolveStart ==
    /\ pc = "start"
    /\ IF dateStartString = EmptyStr
       THEN \E d \in 0..MaxTick :
              /\ now' = now + d
              /\ dateStart' = TimeNow(now + d)
              /\ startValue' = TimeNow(now + d)
              /\ dateEnd' = Add(dateEnd, dateFromSpan)
              /\ Goto("end")
       ELSE IF ParseRFC3339(dateStartString).ok
       THEN /\ dateStart' = ParseRFC3339(dateStartString).time
            /\ startValue' = ParseRFC3339(dateStartString).time
            /\ dateEnd' = Add(dateEnd, dateFromSpan)
            /\ now' = now
            /\ Goto("end")
       ELSE /\ Fatal("Unable to parse start date")
            /\ UNCHANGED timeVars
    /\ UNCHANGED <<flagVars, authVars, queryVars, fetchVars, collVars, writerVars>>

\* Lines 111-119: the end of the window, then the -to span.
ResolveEnd ==
    /\ pc = "end"
    /\ IF dateEndString = EmptyStr
       THEN \E d \in 0..MaxTick :
              /\ now' = now + d
              /\ dateEnd' = Add(TimeNow(now + d), dateToSpan)
              /\ Goto("range")
       ELSE IF ParseRFC3339(dateEndString).ok
       THEN /\ dateEnd' = Add(ParseRFC3339(dateEndString).time, dateToSpan)
            /\ now' = now
            /\ Goto("range")
       ELSE /\ Fatal("Unable to parse end date")
            /\ UNCHANGED <<dateEnd, now>>
    /\ UNCHANGED <<dateStart, startValue>>
    /\ UNCHANGED <<flagVars, authVars, queryVars, fetchVars, collVars, writerVars>>

\* Lines 121-123.
CheckRange ==
    /\ pc = "range"
    /\ IF RangeOK(dateStart, dateEnd)
       THEN Goto("creds")
       ELSE Fatal("End date must be after start date")
    /\ UNCHANGED <<flagVars, timeVars, authVars, queryVars, fetchVars, collVars, writerVars>>

\* ----------------------------------------------------- main: credentials
\* Lines 125-134: credentials.json is read and parsed, or the run is fatal.
ReadCredentials ==
    /\ pc = "creds"
    /\ \E ok \in BOOLEAN :
         IF ok THEN Goto("token") ELSE Fatal("Unable to read client secret file")
    /\ UNCHANGED <<flagVars, timeVars, authVars, queryVars, fetchVars, collVars, writerVars>>

\* getClient, lines 26-28 and 32: token.json is loaded; on success the
\* client is built from it.
TokenFromFile ==
    /\ pc = "token"
    /\ \E r \in {"ok", "err"} :
         /\ tokLoad' = r
         /\ IF LoadFailed(r) THEN Goto("web") ELSE Goto("service")
    /\ UNCHANGED <<prompts, exchanges, tokenWrites>>
    /\ UNCHANGED <<flagVars, timeVars, queryVars, fetchVars, collVars, writerVars>>

\* getTokenFromWeb, lines 36-51: prompt, read the code, exchange it.
GetTokenFromWeb ==
    /\ pc = "web"
    /\ prompts' = prompts + 1
    /\ \E scanned \in BOOLEAN, exchanged \in BOOLEAN :
         IF ~scanned
         THEN /\ Fatal("Unable to read authorization code")
              /\ exchanges' = exchanges
         ELSE /\ exchanges' = exchanges + 1
              /\ IF exchanged
                 THEN Goto("save")
                 ELSE Fatal("Unable to retrieve token from web")
    /\ UNCHANGED <<tokLoad, tokenWrites>>
    /\ UNCHANGED <<flagVars, timeVars, queryVars, fetchVars, collVars, writerVars>>

\* saveToken, lines 66-74, then line 32.
SaveToken ==
    /\ pc = "save"
    /\ \E opened \in BOOLEAN :
         IF opened
         THEN /\ tokenWrites' = tokenWrites + 1
              /\ Goto("service")
         ELSE /\ Fatal("Unable to cache oauth token")
              /\ tokenWrites' = tokenWrites
    /\ UNCHANGED <<tokLoad, prompts, exchanges>>
    /\ UNCHANGED <<flagVars, timeVars, queryVars, fetchVars, collVars, writerVars>>

\* Lines 137-140.
NewService ==
    /\ pc = "service"
    /\ \E ok \in BOOLEAN :
         IF ok THEN Goto("query") ELSE Fatal("Unable to retrieve Calendar client")
    /\ UNCHANGED <<flagVars, timeVars, authVars, queryVars, fetchVars, collVars, writerVars>>

\* ------------------------------------------------------- main: the query
\* Lines 142-147: a zero collector, the fetch context, the list call with
\* its time bounds, and the callback over a new csv.Writer.
BuildQuery ==
    /\ pc = "query"
    /\ qTimeMin' = FormatRFC3339(dateStart)
    /\ qTimeMax' = FormatRFC3339(dateEnd)
    /\ queries' = queries
    /\ pageCounter' = 0
    /\ itemCounter' = 0
    /\ ctxErr' = FALSE
    /\ buf' = <<>>
    /\ werr' = FALSE
    /\ Goto("do")
    /\ UNCHANGED <<flagVars, timeVars, authVars, remote, pageIdx, cancelled, i, cbRet, out>>

\* The deadline of the fetch context passes (line 143).  The context stays
\* cancelled from then on.
Cancel ==
    /\ pc \in {"do", "cb", "item"}
    /\ ~ctxErr
    /\ ctxErr' = TRUE
    /\ cancelled' = [phase |-> IF pc = "do" THEN "fetch" ELSE IF pc = "cb" THEN "pre" ELSE "mid",
                     page  |-> IF pc = "do" THEN pageIdx + 1 ELSE pageIdx,
                     item  |-> IF pc = "item" THEN i ELSE 0]
    /\ UNCHANGED <<flagVars, timeVars, pc, exit, fatalMsg, authVars, queryVars,
                   remote, pageIdx, collVars, writerVars>>

\* Pages (line 147): one request for the next page.  It fails on a
\* cancelled context or a transport error, and the run is fatal (line 149).
PagesDo ==
    /\ pc = "do"
    /\ queries' = queries + 1
    /\ IF ctxErr
       THEN /\ Fatal("Unable to retrieve events: context deadline exceeded")
            /\ pageIdx' = pageIdx
       ELSE \E ok \in BOOLEAN :
              IF ok
              THEN /\ pageIdx' = pageIdx + 1
                   /\ Goto("cb")
              ELSE /\ Fatal("Unable to retrieve events: transport")
                   /\ pageIdx' = pageIdx
    /\ UNCHANGED <<qTimeMin, qTimeMax, remote, ctxErr, cancelled>>
    /\ UNCHANGED <<flagVars, timeVars, authVars, collVars, writerVars>>

\* ---------------------------------------------------------- the callback
\* Lines 171-175: the entry check, then the counters.
CallbackEnter ==
    /\ pc = "cb"
    /\ IF CtxDone(ctxErr)
       THEN /\ cbRet' = Append(cbRet, "ctx")
            /\ Fatal("Unable to retrieve events: context deadline exceeded")
            /\ UNCHANGED <<pageCounter, itemCounter, i>>
       ELSE /\ pageCounter' = pageCounter + 1
            /\ itemCounter' = AddItems(itemCounter, remote[pageIdx])
            /\ i' = 1
            /\ cbRet' = cbRet
            /\ Goto("item")
    /\ UNCHANGED <<flagVars, timeVars, authVars, queryVars, fetchVars, writerVars>>

\* csv.Writer.Write (line 158): the row goes to the buffer, unless an
\* earlier flush failed; the writer's error is sticky.
\* csv.Writer.Flush (line 181): the buffer goes to the stream, or the
\* stream fails and the writer keeps the error; Flush returns nothing.
WriteRecord ==
    /\ i <= Len(remote[pageIdx])
    /\ IF werr
       THEN /\ cbRet' = Append(cbRet, "write")
            /\ Fatal("Unable to retrieve events: write")
            /\ UNCHANGED <<i, writerVars>>
       ELSE /\ \E streamOK \in BOOLEAN :
                 IF streamOK
                 THEN /\ out' = out \o Append(buf, Record(remote[pageIdx][i]))
                      /\ werr' = FALSE
                 ELSE /\ out' = out
                      /\ werr' = TRUE
            /\ buf' = <<>>
            /\ i' = i + 1
            /\ cbRet' = cbRet
            /\ Goto("item")
    /\ UNCHANGED <<pageCounter, itemCounter>>
    /\ UNCHANGED <<flagVars, timeVars, authVars, queryVars, fetchVars>>

\* Lines 176-182: one turn of the loop over e.Items.  The context is not
\* looked at here.
WriteItemCtxChecked ==
    /\ pc = "item"
    /\ IF ctxErr /\ i <= Len(remote[pageIdx])
       THEN /\ cbRet' = Append(cbRet, "ctx")
            /\ Fatal("Unable to retrieve events: context deadline exceeded")
            /\ UNCHANGED <<pageCounter, itemCounter, i, writerVars>>
            /\ UNCHANGED <<flagVars, timeVars, authVars, queryVars, fetchVars>>
       ELSE WriteRecord
WriteItem ==
    /\ pc = "item"
    /\ WriteRecord

\* Line 183, then Pages: stop after the last page (main returns, exit 0),
\* else ask for the next one.
CallbackReturn ==
    /\ pc = "item"
    /\ i > Len(remote[pageIdx])
    /\ cbRet' = Append(cbRet, "nil")
    /\ IF pageIdx = Len(remote)
       THEN /\ pc' = "done"
            /\ exit' = "ok"
            /\ fatalMsg' = fatalMsg
       ELSE Goto("do")
    /\ UNCHANGED <<pageCounter, itemCounter, i>>
    /\ UNCHANGED <<flagVars, timeVars, authVars, queryVars, fetchVars, writerVars>>

Next ==
    \/ ResolveStart
    \/ ResolveEnd
    \/ CheckRange
    \/ ReadCredentials
    \/ TokenFromFile
    \/ GetTokenFromWeb
    \/ SaveToken
    \/ NewService
    \/ BuildQuery
    \/ Cancel
    \/ PagesDo
    \/ CallbackEnter
    \/ WriteItem
    \/ CallbackReturn

Spec == Init /\ [][Next]_vars

SpecResolver == InitResolver /\ [][Next]_vars

\* ================================================================ claims
\* What the properties below compare the run against: the events of the
\* first k pages in order, and the row each event stands for.
ItemsUpTo(k) == Flatten(SubSeq(remote, 1, k))

ExpectedRow(item) == <<IF item.dt # "" THEN item.dt ELSE item.date, item.summary>>

ExpectedRows(k) == [j \in 1..Len(ItemsUpTo(k)) |-> ExpectedRow(ItemsUpTo(k)[j])]

IsPrefix(a, b) == Len(a) <= Len(b) /\ SubSeq(b, 1, Len(a)) = a

CtxMsg == "Unable to retrieve events: context deadline exceeded"

ConfigMsgs == {"Unable to parse start date", "Unable to parse end date",
               "End date must be after start date"}

\* The run has gone past the resolver (line 123) without a fatal error there.
Accepted == pc \notin {"start", "end", "range"} /\ fatalMsg \notin ConfigMsgs

\* The list call has been built (line 147).
QueryBuilt == qTimeMin # EmptyStr

\* Something beyond the local files has been asked for: the authorization
\* prompt and exchange, or a page of the list call.
NetworkTouched == prompts > 0 \/ exchanges > 0 \/ queries > 0

\* C1: a run that ends as a full traversal with no write error has counted
\* every page and every item and has put one row per item on the output, in
\* the order of the items across the pages.
C1_FullTraversal ==
    (exit = "ok" /\ ~werr) =>
        /\ pageCounter = Len(remote)
        /\ itemCounter = Len(ItemsUpTo(Len(remote)))
        /\ out = ExpectedRows(Len(remote))
        /\ buf = <<>>

C1_Witness ==
    /\ exit = "ok" /\ ~werr /\ ~ctxErr
    /\ Len(remote) = MaxPages
    /\ Len(remote[1]) = 1 /\ Len(remote[2]) = 1
    /\ Len(out) = 2 /\ out[1] # out[2]

\* C2: when the context is cancelled before page k is handed to the
\* callback, the callback returns the context's error for page k, the
\* counters stand at pages 1..k-1, and the output holds rows of pages
\* 1..k-1 only (all of them unless the stream failed); nothing of page k or
\* later is written afterwards, the run being over.
C2_CancelBeforePage ==
    (cancelled.phase = "pre" /\ pc # "cb") =>
        LET k == cancelled.page IN
        /\ Len(cbRet) = k
        /\ cbRet[k] = "ctx"
        /\ \A j \in 1..(k - 1) : cbRet[j] = "nil"
        /\ pageCounter = k - 1
        /\ itemCounter = Len(ItemsUpTo(k - 1))
        /\ IsPrefix(out, ExpectedRows(k - 1))
        /\ (~werr => out = ExpectedRows(k - 1))
        /\ buf = <<>>
        /\ exit = "fatal" /\ fatalMsg = CtxMsg /\ pc = "done"

C2_Witness ==
    /\ cancelled.phase = "pre" /\ cancelled.page = 2
    /\ exit = "fatal" /\ cbRet = <<"nil", "ctx">>
    /\ Len(remote[1]) = 1 /\ Len(remote[2]) = 1
    /\ Len(out) = 1

\* C3: nothing is asked of the network unless both date strings parsed and
\* the resolved end is after the resolved start; a malformed string or an
\* end not after the start ends the run with a fatal configuration error.
C3_ValidateBeforeNetwork ==
    /\ (NetworkTouched \/ tokLoad # "none" \/ pc \in {"creds", "token"}) =>
          /\ dateStartString # BadStr
          /\ dateEndString # BadStr
          /\ dateEnd.t > dateStart.t
    /\ (pc = "done" /\ dateStartString = BadStr) =>
          (exit = "fatal" /\ fatalMsg = "Unable to parse start date" /\ ~NetworkTouched)
    /\ (pc = "done" /\ dateStartString # BadStr /\ dateEndString = BadStr) =>
          (exit = "fatal" /\ fatalMsg = "Unable to parse end date" /\ ~NetworkTouched)
    /\ (pc = "done" /\ dateStartString # BadStr /\ dateEndString # BadStr
          /\ dateEnd.t <= dateStart.t) =>
          (exit = "fatal" /\ fatalMsg = "End date must be after start date" /\ ~NetworkTouched)

C3_Witness ==
    /\ exit = "fatal" /\ fatalMsg = "End date must be after start date"
    /\ dateStartString.k = "ok" /\ dateEndString.k = "ok"
    /\ dateEnd.t = dateStart.t
    /\ ~NetworkTouched

\* C4 (as claimed): once the start is resolved, the start used for the range
\* check and for the lower time bound is the start value plus the -from span.
C4_FromAddedToStart ==
    /\ (pc # "start" /\ fatalMsg # "Unable to parse start date") =>
          dateStart = Add(startValue, dateFromSpan)
    /\ QueryBuilt => qTimeMin = FormatRFC3339(Add(startValue, dateFromSpan))

\* C5 (as claimed): a run never ends as a successful full traversal after a
\* write or flush of a record failed.
C5_WriteFailureIsFatal == exit = "ok" => ~werr

\* C6 (as claimed): the rows on the output never exceed -limit.
C6_RowsWithinLimit == Len(out) <= limit

\* C7: explicit well-formed -start and -end with end after start and zero
\* spans.
C7_Pre ==
    /\ dateStartString.k = "ok" /\ dateEndString.k = "ok"
    /\ dateFromSpan = 0 /\ dateToSpan = 0
    /\ ParseRFC3339(dateEndString).time.t > ParseRFC3339(dateStartString).time.t

\* C7 (as claimed): the query's time bounds are exactly the supplied pair.
C7_BoundsUnchanged ==
    (C7_Pre /\ QueryBuilt) =>
        (qTimeMin = dateStartString /\ qTimeMax = dateEndString)

\* C7 (amended): the window is accepted and resolved to exactly the supplied
\* instants; the query's time bounds are the supplied pair in the same zone
\* offsets with the fractional second dropped.
C7_BoundsTruncated ==
    C7_Pre =>
        /\ pc = "done" => fatalMsg \notin ConfigMsgs
        /\ pc \notin {"start", "end"} =>
              /\ dateStart.t = (dateStartString.sec - dateStartString.off) * TicksPerSec
                                  + dateStartString.frac
              /\ dateEnd.t = (dateEndString.sec - dateEndString.off) * TicksPerSec
                                  + dateEndString.frac
        /\ QueryBuilt =>
              /\ qTimeMin = [dateStartString EXCEPT !.frac = 0]
              /\ qTimeMax = [dateEndString EXCEPT !.frac = 0]

C7_Witness ==
    /\ C7_Pre /\ QueryBuilt /\ queries > 0
    /\ dateEndString.frac # 0 /\ dateStartString.off # 0
    /\ qTimeMin = qTimeMax

\* C8: at most one prompt and one exchange per run, and only after the
\* cached credential failed to load; a loaded credential means no prompt and
\* no write of the credential file; a failed exchange ends the run with
\* nothing saved and nothing queried.
C8_ExchangeOnceAfterLoadFailure ==
    /\ prompts <= 1 /\ exchanges <= 1 /\ tokenWrites <= 1
    /\ (prompts > 0 \/ exchanges > 0 \/ tokenWrites > 0) => tokLoad = "err"
    /\ tokLoad = "ok" => (prompts = 0 /\ exchanges = 0 /\ tokenWrites = 0)
    /\ fatalMsg = "Unable to retrieve token from web" =>
          /\ exit = "fatal" /\ pc = "done"
          /\ exchanges = 1 /\ tokenWrites = 0 /\ queries = 0
    /\ tokenWrites > 0 => exchanges = 1

C8_Witness ==
    /\ exit = "fatal" /\ fatalMsg = "Unable to retrieve token from web"
    /\ tokLoad = "err" /\ prompts = 1 /\ exchanges = 1

\* C9: every row handed to the writer has two fields, the event's precise
\* start when that is not empty and its date-only start otherwise, then the
\* summary; one row per event processed.
C9_RowMapping ==
    /\ \A j \in 1..Len(out) :
          /\ Len(out[j]) = 2
          /\ out[j][1] = (IF ItemsUpTo(Len(remote))[j].dt # ""
                          THEN ItemsUpTo(Len(remote))[j].dt
                          ELSE ItemsUpTo(Len(remote))[j].date)
          /\ out[j][2] = ItemsUpTo(Len(remote))[j].summary
    /\ (pc = "item" /\ ~werr) => Len(out) = Len(ItemsUpTo(pageIdx - 1)) + i - 1

C9_Witness ==
    /\ exit = "ok"
    /\ \E j \in 1..Len(out) :
          /\ ItemsUpTo(Len(remote))[j].dt = ""
          /\ ItemsUpTo(Len(remote))[j].date = "d"
          /\ out[j] = <<"d", "s">>

\* C10: when the context is cancelled after the entry check of page k has
\* passed, the callback does not return the context's error for page k; with
\* a working stream it returns nil with every row of page k on the output.
\* The cancellation ends the run only after page k was completed, at the
\* request for page k+1.
C10_NoMidPageCancel ==
    cancelled.phase = "mid" =>
        LET k == cancelled.page IN
        /\ Len(cbRet) >= k => cbRet[k] # "ctx"
        /\ (Len(cbRet) >= k /\ ~werr) => (cbRet[k] = "nil" /\ out = ExpectedRows(k))
        /\ fatalMsg = CtxMsg =>
              /\ Len(cbRet) = k /\ cbRet[k] = "nil"
              /\ queries = k + 1
              /\ pageCounter = k

C10_Witness ==
    /\ cancelled.phase = "mid" /\ cancelled.item = 1
    /\ Len(remote[cancelled.page]) = 2
    /\ Len(cbRet) >= cancelled.page /\ cbRet[cancelled.page] = "nil"
    /\ ~werr
    /\ Len(out) >= 2
====
